---- MODULE Spec2Model ----
(***************************************************************************)
(* Mesh-rotation search, z-offset correction, interference classification  *)
(* and assembly interference aggregation of gib_tuners, the interference   *)
(* check and export of scripts/build.py, and create_left_hand_config.      *)
(*                                                                         *)
(* Numbers.  The Python code computes with floats; the model computes      *)
(* exactly, in integers:                                                   *)
(*   - a search angle is a whole number of units of                        *)
(*     1/(num_teeth * TicksPerDegree) degree, so that the tooth pitch      *)
(*     360/num_teeth is exactly 360 * TicksPerDegree units, and a step of  *)
(*     s ticks (s/TicksPerDegree degrees) is s * num_teeth units;          *)
(*   - a volume of the assembly and of the classifier is a whole number    *)
(*     of 0.001 mm^3;                                                      *)
(*   - the corrector computes with fractions <<numerator, denominator>>;   *)
(*     calculate_mesh_rotation_analytical is evaluated twice, in exact     *)
(*     arithmetic and in binary floating point with a significand of       *)
(*     MantissaBits bits, every operation rounded to nearest, ties to even *)
(*     (the double of Python, at a smaller precision).                     *)
(* A geometry-kernel query that raises is the outcome KernelRaises.        *)
(***************************************************************************)
EXTENDS Integers, Sequences, FiniteSets, TLC

VARIABLES
    component,          \* which part of the package this behaviour exercises
    \* ---- calculate_mesh_rotation / find_optimal_mesh_rotation
    num_teeth,          \* argument num_teeth
    coarse_step,        \* argument coarse_step, in ticks
    fine_step,          \* argument fine_step, in ticks
    volset,             \* outcomes the kernel can give in this behaviour
    kernel,             \* the kernel's answers so far: angle -> outcome
    pc,                 \* "idle", "coarse", "fine", "done"
    idx,                \* position in coarse_angles / fine_angles
    fine_center,        \* best_rotation when fine_angles was built
    best_rotation,      \* local best_rotation
    min_interference,   \* local min_interference
    probes,             \* queries issued by the current run, in order
    returned,           \* the angles returned by the finished runs, in order
    wheel,              \* the pose of the caller's wheel handle: its rotation
    worm,               \* the pose of the caller's worm handle
    \* ---- create_positioned_assembly / run_interference_report
    num_housings,       \* config.frame.num_housings
    check_flag,         \* argument check_interference
    tuners,             \* per positioned tuner, the kernel's outcome per check
    all_parts,          \* keys of all_parts
    asm_pc,             \* "building", "returned", "raised", "reported"
    result,             \* the dict create_positioned_assembly returned
    error,              \* AssemblyInterferenceError.results, when raised
    report,             \* what a later run_interference_report(result) returned
    \* ---- check_wheel_worm_interference
    scale,              \* config.scale
    backlash,           \* config.gear.backlash, in 0.01 mm
    face_width,         \* config.gear.wheel.face_width, in 0.1 mm
    cls_call,           \* the last call: files found, rotation, kernel outcome
    cls_result,         \* the InterferenceResult it returned
    cls_prev,           \* the InterferenceResult the call before it returned
    optimal,            \* what the last find_optimal_mesh_rotation returned
    \* ---- create_default_config / calculate_mesh_rotation_analytical
    gear,               \* what load_gear_params read from the gear JSON
    tuner_overrides,    \* what load_tuner_config read from tuner_config.json
    cfg_outcome,        \* create_default_config: the BuildConfig or the error
    analytical,         \* z_offset -> the pair the analytical function gave
    analytical_float,   \* z_offset -> the pair it gave, computed in floats
    unit,               \* create_tuner_unit: its config, locals and outcome
    \* ---- scripts/build.py main
    args,               \* the parsed command line
    stations,           \* per hand, the kernel's outcomes for one of its tuners
    build_pc,           \* "configured", "checked", "exported"
    interference_failed,\* local interference_failed
    log,                \* what main has done so far, in order
    exported,           \* basenames of the components exported
    \* ---- utils/mirror.py create_left_hand_config
    rh_config,          \* the right-hand BuildConfig passed in
    lh_config           \* the BuildConfig returned, NoCall before the call

searchVars == <<num_teeth, coarse_step, fine_step, volset, kernel, pc, idx,
                fine_center, best_rotation, min_interference, probes, returned,
                wheel, worm>>

asmVars == <<num_housings, check_flag, tuners, all_parts, asm_pc, result,
             error, report>>

clsVars == <<scale, backlash, face_width, cls_call, cls_result, cls_prev,
             optimal>>

cfgVars == <<gear, tuner_overrides, cfg_outcome, analytical, analytical_float,
             unit>>

buildVars == <<args, stations, build_pc, interference_failed, log, exported>>

mirrorVars == <<rh_config, lh_config>>

vars == <<component, searchVars, asmVars, clsVars, cfgVars, buildVars,
          mirrorVars>>

----------------------------------------------------------------------------
(* Bounds of the model *)

\* ticks per degree: the resolution of the step sizes the model can state
TicksPerDegree == 10
\* the kernel reports volumes 0..MaxVol
MaxVol == 2
\* searches of at most this many probes get an unconstrained kernel
MaxFreeProbes == 8
\* runs of the search on the same inputs
MaxRuns == 2
\* housings of a frame
MaxHousings == 5
\* calls of calculate_mesh_rotation_analytical whose results are kept
MaxCalls == 2
\* bits of the significand of a float
MantissaBits == 5
\* lists up to this length are tried in every order, longer ones in a few
MaxPermuted == 4

\* the kernel raised instead of returning a volume
KernelRaises == -1
\* float("inf")
Inf == MaxVol + 1

----------------------------------------------------------------------------
(* calculate_mesh_rotation *)

\* tooth_angle = 360.0 / num_teeth, in units
ToothAngle == 360 * TicksPerDegree

StepUnits(step) == step * num_teeth

\* range(int(tooth_angle / coarse_step)), without the + 1
CoarseCountExclusive == ToothAngle \div StepUnits(coarse_step)

\* len(coarse_angles) = int(tooth_angle / coarse_step) + 1
CoarseCount == (ToothAngle \div StepUnits(coarse_step)) + 1

\* coarse_angles[i] = i * coarse_step
CoarseAngle(i) == i * StepUnits(coarse_step)

\* fine_range = int(coarse_step / fine_step)
FineRange == StepUnits(coarse_step) \div StepUnits(fine_step)

FineCount == 2 * FineRange + 1

\* fine_angles[d] = best_rotation + (d - fine_range) * fine_step
FineAngle(d) == fine_center + (d - FineRange) * StepUnits(fine_step)

\* the candidate as it was built, not reduced
Unnormalized(angle) == angle

\* normalized_angle = angle % tooth_angle
NormalizedAngle(angle) == angle % ToothAngle

\* wheel.rotate(Axis.Z, angle): a new Part at the rotated pose; the Part it
\* is called on keeps its pose
Rotate(part, angle) == part + angle

\* the outcome of `rotated_wheel & worm` at a pose: the same pose gives the
\* same outcome; a pose not yet queried gives any outcome of the kernel
KernelAnswers(angle) ==
    IF angle \in DOMAIN kernel THEN {kernel[angle]} ELSE volset

\* a raising query scored as it came, not as 0
InterferenceUnguarded(outcome) == outcome

\* a raising query scored as the worst volume, not as 0
InterferenceWorstOnFailure(outcome) ==
    IF outcome = KernelRaises THEN Inf ELSE outcome

\* try: interference = intersection.volume / except Exception: interference = 0
Interference(outcome) == IF outcome = KernelRaises THEN 0 ELSE outcome

\* compares with the initial minimum instead of the running one
ImprovesOnInitial(interference, minimum) == interference < Inf

\* a tie replaces the minimum too
ImprovesOrTies(interference, minimum) == interference <= minimum

\* if interference < min_interference
Improves(interference, minimum) == interference < minimum

Probe(phase, angle, outcome) ==
    [phase |-> phase, angle |-> angle, outcome |-> outcome,
     interference |-> Interference(outcome)]

\* the inputs the searches are run on: <<num_teeth, coarse_step, fine_step>>
SearchInputs ==
    { <<13, TicksPerDegree, 1>>,        \* the defaults on a 13-tooth wheel
      <<10, TicksPerDegree, 1>>,        \* the defaults on a 10-tooth wheel
      <<90, 2 * TicksPerDegree, TicksPerDegree>>,
      <<90, TicksPerDegree, TicksPerDegree>>,
      <<120, 2 * TicksPerDegree, TicksPerDegree>>,
      <<180, 3 * TicksPerDegree, TicksPerDegree>>,
      <<72, 2 * TicksPerDegree, 2 * TicksPerDegree - 1>> }

ProbeTotal(n, cs, fs) ==
    ((360 * TicksPerDegree) \div (cs * n)) + 1 + 2 * ((cs * n) \div (fs * n)) + 1

KernelRanges(n, cs, fs) ==
    IF ProbeTotal(n, cs, fs) <= MaxFreeProbes
    THEN { KernelRaises .. MaxVol }
    ELSE { {KernelRaises}, {0}, {MaxVol} }

SearchBegin ==
    /\ \E inp \in SearchInputs :
          /\ num_teeth = inp[1]
          /\ coarse_step = inp[2]
          /\ fine_step = inp[3]
          /\ volset \in KernelRanges(inp[1], inp[2], inp[3])
    /\ kernel = <<>>
    /\ pc = "idle"
    /\ idx = 0
    /\ fine_center = 0
    /\ best_rotation = 0
    /\ min_interference = Inf
    /\ probes = <<>>
    /\ returned = <<>>
    /\ wheel = 0
    /\ worm = 0

\* no search is run
SearchIdle ==
    /\ num_teeth = 13
    /\ coarse_step = TicksPerDegree
    /\ fine_step = 1
    /\ volset = {}
    /\ kernel = <<>>
    /\ pc = "idle"
    /\ idx = 0
    /\ fine_center = 0
    /\ best_rotation = 0
    /\ min_interference = Inf
    /\ probes = <<>>
    /\ returned = <<>>
    /\ wheel = 0
    /\ worm = 0

\* a search whose min_interference outlives the call
StartSearchKeepingMinimum ==
    /\ component = "search"
    /\ pc \in {"idle", "done"}
    /\ Len(returned) < MaxRuns
    /\ pc' = "coarse"
    /\ idx' = 0
    /\ fine_center' = 0
    /\ best_rotation' = 0
    /\ probes' = <<>>
    /\ UNCHANGED <<component, num_teeth, coarse_step, fine_step, volset,
                   kernel, returned, min_interference, wheel, worm,
                   asmVars, clsVars, cfgVars, buildVars, mirrorVars>>

\* wheel.py 122-128: entry, locals, coarse_angles
StartSearch ==
    /\ component = "search"
    /\ pc \in {"idle", "done"}
    /\ Len(returned) < MaxRuns
    /\ pc' = "coarse"
    /\ idx' = 0
    /\ fine_center' = 0
    /\ best_rotation' = 0
    /\ min_interference' = Inf
    /\ probes' = <<>>
    /\ UNCHANGED <<component, num_teeth, coarse_step, fine_step, volset,
                   kernel, returned, wheel, worm,
                   asmVars, clsVars, cfgVars, buildVars, mirrorVars>>

\* a coarse probe that rotates the caller's wheel itself
CoarseProbeInPlace ==
    /\ component = "search"
    /\ pc = "coarse"
    /\ idx < CoarseCount
    /\ LET angle == CoarseAngle(idx)
           rotated_wheel == Rotate(wheel, angle)
       IN /\ wheel' = rotated_wheel
          /\ \E outcome \in KernelAnswers(rotated_wheel) :
                LET interference == Interference(outcome) IN
                /\ kernel' = (rotated_wheel :> outcome) @@ kernel
                /\ probes' = Append(probes, Probe("coarse", angle, outcome))
                /\ IF Improves(interference, min_interference)
                   THEN /\ min_interference' = interference
                        /\ best_rotation' = angle
                   ELSE UNCHANGED <<min_interference, best_rotation>>
    /\ idx' = idx + 1
    /\ UNCHANGED <<component, num_teeth, coarse_step, fine_step, volset, pc,
                   fine_center, returned, worm,
                   asmVars, clsVars, cfgVars, buildVars, mirrorVars>>

\* wheel.py 129-140: one iteration of the coarse loop
CoarseProbe ==
    /\ component = "search"
    /\ pc = "coarse"
    /\ idx < CoarseCount
    /\ LET angle == CoarseAngle(idx)
           rotated_wheel == Rotate(wheel, angle)
       IN \E outcome \in KernelAnswers(rotated_wheel) :
             LET interference == Interference(outcome) IN
             /\ kernel' = (rotated_wheel :> outcome) @@ kernel
             /\ probes' = Append(probes, Probe("coarse", angle, outcome))
             /\ IF Improves(interference, min_interference)
                THEN /\ min_interference' = interference
                     /\ best_rotation' = angle
                ELSE UNCHANGED <<min_interference, best_rotation>>
    /\ idx' = idx + 1
    /\ UNCHANGED <<component, num_teeth, coarse_step, fine_step, volset, pc,
                   fine_center, returned, wheel, worm,
                   asmVars, clsVars, cfgVars, buildVars, mirrorVars>>

\* wheel.py 143-147: fine_range and fine_angles, built from the coarse optimum
BeginFine ==
    /\ component = "search"
    /\ pc = "coarse"
    /\ idx = CoarseCount
    /\ pc' = "fine"
    /\ idx' = 0
    /\ fine_center' = best_rotation
    /\ UNCHANGED <<component, num_teeth, coarse_step, fine_step, volset,
                   kernel, best_rotation, min_interference, probes, returned,
                   wheel, worm, asmVars, clsVars, cfgVars, buildVars, mirrorVars>>

\* wheel.py 148-160: one iteration of the fine loop
FineProbe ==
    /\ component = "search"
    /\ pc = "fine"
    /\ idx < FineCount
    /\ LET normalized_angle == NormalizedAngle(FineAngle(idx))
           rotated_wheel == Rotate(wheel, normalized_angle)
       IN \E outcome \in KernelAnswers(rotated_wheel) :
             LET interference == Interference(outcome) IN
             /\ kernel' = (rotated_wheel :> outcome) @@ kernel
             /\ probes' =
                   Append(probes, Probe("fine", normalized_angle, outcome))
             /\ IF Improves(interference, min_interference)
                THEN /\ min_interference' = interference
                     /\ best_rotation' = normalized_angle
                ELSE UNCHANGED <<min_interference, best_rotation>>
    /\ idx' = idx + 1
    /\ UNCHANGED <<component, num_teeth, coarse_step, fine_step, volset, pc,
                   fine_center, returned, wheel, worm,
                   asmVars, clsVars, cfgVars, buildVars, mirrorVars>>

\* wheel.py 162: return best_rotation
ReturnRotation ==
    /\ component = "search"
    /\ pc = "fine"
    /\ idx = FineCount
    /\ pc' = "done"
    /\ returned' = Append(returned, best_rotation)
    /\ UNCHANGED <<component, num_teeth, coarse_step, fine_step, volset,
                   kernel, idx, fine_center, best_rotation, min_interference,
                   probes, wheel, worm,
                   asmVars, clsVars, cfgVars, buildVars, mirrorVars>>

\* wheel.py 129-140: min_interference and best_rotation after the coarse
\* loop has taken the first j of the coarse angles in the order given, a
\* sequence of positions in coarse_angles; the kernel has answered for them
RECURSIVE CoarseLoop(_, _)
CoarseLoop(order, j) ==
    IF j = 0 THEN [min_interference |-> Inf, best_rotation |-> 0]
    ELSE LET before == CoarseLoop(order, j - 1)
             angle == CoarseAngle(order[j])
             interference == Interference(kernel[Rotate(wheel, angle)])
         IN IF Improves(interference, before.min_interference)
            THEN [min_interference |-> interference, best_rotation |-> angle]
            ELSE before

\* range(int(tooth_angle / coarse_step) + 1), as a sequence
CoarseOrder == [j \in 1..CoarseCount |-> j - 1]

----------------------------------------------------------------------------
(* gang_assembly: check_interference, run_interference_report,              *)
(* create_positioned_assembly.  Volumes in 0.001 mm^3.                     *)

\* threshold = 0.03 * num_housings: the allowance per housing
PerHousingAllowance == 30

\* the four checks of a tuner, in the order of the `checks` list
CheckDescs == <<"gear mesh", "post in hole", "worm in hole", "wheel in cavity">>

\* desc.replace(' ', '_')
Underscored(desc) ==
    CASE desc = "gear mesh" -> "gear_mesh"
      [] desc = "post in hole" -> "post_in_hole"
      [] desc = "worm in hole" -> "worm_in_hole"
      [] desc = "wheel in cavity" -> "wheel_in_cavity"

\* f"{name}_{tuner_num}"
PartName(name, tuner_num) == name \o "_" \o ToString(tuner_num)

\* the (name_a, name_b) of a check of tuner tuner_num
CheckPair(tuner_num, desc) ==
    CASE desc = "gear mesh" ->
            <<PartName("wheel", tuner_num), PartName("peg_head", tuner_num)>>
      [] desc = "post in hole" -> <<PartName("string_post", tuner_num), "frame">>
      [] desc = "worm in hole" -> <<PartName("peg_head", tuner_num), "frame">>
      [] desc = "wheel in cavity" -> <<PartName("wheel", tuner_num), "frame">>

\* a key that leaves the tuner number out
CheckKeyPerCheck(tuner_num, desc) == "tuner_" \o Underscored(desc)

\* key = f"tuner_{tuner_num}_{desc.replace(' ', '_')}"
CheckKey(tuner_num, desc) ==
    "tuner_" \o ToString(tuner_num) \o "_" \o Underscored(desc)

\* check_interference(part_a, part_b): the volume, 0.0 when the kernel raises
CheckInterference(outcome) == IF outcome = KernelRaises THEN 0 ELSE outcome

\* if name_a in all_parts and name_b in all_parts
CheckRuns(parts, tuner_num, desc) ==
    /\ CheckPair(tuner_num, desc)[1] \in parts
    /\ CheckPair(tuner_num, desc)[2] \in parts

\* tuner_total after the first j checks of tuner tuner_num
RECURSIVE TunerTotal(_, _, _, _)
TunerTotal(parts, geoms, tuner_num, j) ==
    IF j = 0 THEN 0
    ELSE TunerTotal(parts, geoms, tuner_num, j - 1)
         + ( IF CheckRuns(parts, tuner_num, CheckDescs[j])
             THEN CheckInterference(geoms[tuner_num][CheckDescs[j]])
             ELSE 0 )

\* total = tuner_total instead of total += tuner_total
ReportTotalLastTuner(parts, geoms, n) ==
    IF n = 0 THEN 0 ELSE TunerTotal(parts, geoms, n, Len(CheckDescs))

\* total after the first n tuners
RECURSIVE ReportTotal(_, _, _)
ReportTotal(parts, geoms, n) ==
    IF n = 0 THEN 0
    ELSE ReportTotal(parts, geoms, n - 1)
         + TunerTotal(parts, geoms, n, Len(CheckDescs))

\* results after the first j checks of tuner n, the tuners before n done:
\* results[key] = vol for each check whose two parts are in all_parts
RECURSIVE ReportEntries(_, _, _, _)
ReportEntries(parts, geoms, n, j) ==
    IF n = 0 THEN <<>>
    ELSE IF j = 0 THEN ReportEntries(parts, geoms, n - 1, Len(CheckDescs))
    ELSE IF CheckRuns(parts, n, CheckDescs[j])
         THEN (CheckKey(n, CheckDescs[j])
                  :> CheckInterference(geoms[n][CheckDescs[j]]))
              @@ ReportEntries(parts, geoms, n, j - 1)
         ELSE ReportEntries(parts, geoms, n, j - 1)

\* run_interference_report(assembly): the results dict
RunInterferenceReport(parts, geoms) ==
    ("total" :> ReportTotal(parts, geoms, Len(geoms)))
    @@ ReportEntries(parts, geoms, Len(geoms), Len(CheckDescs))

\* gang_assembly.py 223-251: results after the loop body has run for the
\* first j checks of the order given, a sequence of <<tuner_num, position in
\* checks>>; "total" holds the running total
RECURSIVE ReportLoop(_, _, _, _)
ReportLoop(parts, geoms, order, j) ==
    IF j = 0 THEN ("total" :> 0)
    ELSE LET before == ReportLoop(parts, geoms, order, j - 1)
             tuner_num == order[j][1]
             desc == CheckDescs[order[j][2]]
             vol == CheckInterference(geoms[tuner_num][desc])
         IN IF CheckRuns(parts, tuner_num, desc)
            THEN (CheckKey(tuner_num, desc) :> vol)
                 @@ ("total" :> before["total"] + vol)
                 @@ before
            ELSE before

\* the order the two nested loops take the checks in
ReportOrder(n) ==
    [j \in 1..(n * Len(CheckDescs)) |->
        <<((j - 1) \div Len(CheckDescs)) + 1,
          ((j - 1) % Len(CheckDescs)) + 1>>]

\* threshold = 0.03 * num_housings
Threshold(housings) == PerHousingAllowance * housings

\* > threshold instead of >= threshold
RejectsAbove(interference, housings) ==
    interference["total"] > PerHousingAllowance * housings

\* if interference.get("total", 0.0) >= threshold
Rejects(interference, housings) == interference["total"] >= Threshold(housings)

\* a check is listed in the error message from 0.01 mm^3 on
FailureLimit == 10

\* AssemblyInterferenceError.__init__:
\* failures = [k for k, v in results.items() if k != "total" and v >= 0.01]
Failures(results) ==
    { k \in DOMAIN results \ {"total"} : results[k] >= FailureLimit }

\* what the kernel answers for the four checks of one positioned tuner
Geometry(mesh, post, worm_hole, cavity) ==
    [d \in {CheckDescs[j] : j \in 1..Len(CheckDescs)} |->
        CASE d = "gear mesh" -> mesh
          [] d = "post in hole" -> post
          [] d = "worm in hole" -> worm_hole
          [] d = "wheel in cavity" -> cavity]

\* the tuner geometries the assemblies are built from
Geometries ==
    { Geometry(0, 0, 0, 0),
      Geometry(20, 0, 0, 0),
      Geometry(50, 0, 0, 0),
      Geometry(KernelRaises, 0, KernelRaises, 0),
      Geometry(9, 9, 9, 9) }

\* the components create_tuner_unit returns that the report looks at
TunerParts == {"string_post", "wheel", "peg_head"}

NoDict == [none |-> TRUE]

AsmBegin ==
    /\ num_housings \in 1..MaxHousings
    /\ check_flag \in BOOLEAN
    /\ tuners = <<>>
    /\ all_parts = {"frame"}
    /\ asm_pc = "building"
    /\ result = NoDict
    /\ error = NoDict
    /\ report = NoDict

AsmIdle ==
    /\ num_housings = 1
    /\ check_flag = FALSE
    /\ tuners = <<>>
    /\ all_parts = {}
    /\ asm_pc = "idle"
    /\ result = NoDict
    /\ error = NoDict
    /\ report = NoDict

\* gang_assembly.py 140-157: one iteration of the housing loop
AddTuner ==
    /\ component = "assembly"
    /\ asm_pc = "building"
    /\ Len(tuners) < num_housings
    /\ \E g \in Geometries : tuners' = Append(tuners, g)
    /\ all_parts' = all_parts \cup
                      { PartName(name, Len(tuners) + 1) : name \in TunerParts }
    /\ UNCHANGED <<component, num_housings, check_flag, asm_pc, result, error,
                   report, searchVars, clsVars, cfgVars, buildVars, mirrorVars>>

\* the check run whatever check_interference says
FinishAssemblyAlwaysChecking ==
    /\ component = "assembly"
    /\ asm_pc = "building"
    /\ Len(tuners) = num_housings
    /\ LET interference == RunInterferenceReport(all_parts, tuners) IN
       IF Rejects(interference, num_housings)
       THEN /\ asm_pc' = "raised"
            /\ error' = interference
            /\ UNCHANGED result
       ELSE /\ asm_pc' = "returned"
            /\ result' = [all_parts |-> all_parts,
                          interference |-> interference]
            /\ UNCHANGED error
    /\ UNCHANGED <<component, num_housings, check_flag, tuners, all_parts,
                   report, searchVars, clsVars, cfgVars, buildVars, mirrorVars>>

\* gang_assembly.py 159-178: the result dict, the optional check, the return
FinishAssembly ==
    /\ component = "assembly"
    /\ asm_pc = "building"
    /\ Len(tuners) = num_housings
    /\ IF check_flag
       THEN LET interference == RunInterferenceReport(all_parts, tuners) IN
            IF Rejects(interference, num_housings)
            THEN /\ asm_pc' = "raised"
                 /\ error' = interference
                 /\ UNCHANGED result
            ELSE /\ asm_pc' = "returned"
                 /\ result' = [all_parts |-> all_parts,
                               interference |-> interference]
                 /\ UNCHANGED error
       ELSE /\ asm_pc' = "returned"
            /\ result' = [all_parts |-> all_parts]
            /\ UNCHANGED error
    /\ UNCHANGED <<component, num_housings, check_flag, tuners, all_parts,
                   report, searchVars, clsVars, cfgVars, buildVars, mirrorVars>>

\* a caller's run_interference_report(assembly) on the returned assembly
ReportAssembly ==
    /\ component = "assembly"
    /\ asm_pc = "returned"
    /\ report' = RunInterferenceReport(result.all_parts, tuners)
    /\ asm_pc' = "reported"
    /\ UNCHANGED <<component, num_housings, check_flag, tuners, all_parts,
                   result, error, searchVars, clsVars, cfgVars, buildVars, mirrorVars>>

\* after the raise, the non-raising mode on the same config: the caller
\* builds the assembly again with check_interference=False (the same parts)
\* and calls run_interference_report on it
ReportWithoutRaising ==
    /\ component = "assembly"
    /\ asm_pc = "raised"
    /\ report = NoDict
    /\ report' = RunInterferenceReport(all_parts, tuners)
    /\ UNCHANGED <<component, num_housings, check_flag, tuners, all_parts,
                   asm_pc, result, error, searchVars, clsVars, cfgVars, buildVars, mirrorVars>>

----------------------------------------------------------------------------
(* validation: check_wheel_worm_interference.  Volumes in 0.001 mm^3.      *)

\* manufacturing_volume_tolerance = 1.0 * (scale ** 3): the 1.0 mm^3
ManufacturingAllowance == 1000

\* backlash = config.gear.backlash * scale
\* backlash_volume_tolerance = backlash * config.gear.wheel.face_width * scale
BacklashVolumeTolerance == (backlash * scale) * face_width * scale

\* manufacturing_volume_tolerance = 1.0 * (scale ** 3)
ManufacturingVolumeTolerance == ManufacturingAllowance * (scale * scale * scale)

\* try: interference_volume = intersection.volume / except: 0.0
InterferenceVolume(outcome) == IF outcome = KernelRaises THEN 0 ELSE outcome

\* < instead of <=
WithinBacklashStrict(volume) == volume < (backlash * scale) * face_width * scale

\* within_backlash = interference_volume <= backlash_volume_tolerance
WithinBacklash(volume) == volume <= BacklashVolumeTolerance

\* within_manufacturing = interference_volume <= manufacturing_volume_tolerance
WithinManufacturing(volume) == volume <= ManufacturingVolumeTolerance

\* within_manufacturing tested before within_backlash
MessageManufacturingFirst(volume) ==
    IF volume = 0 THEN "No interference detected"
    ELSE IF WithinManufacturing(volume) THEN "within manufacturing tolerance"
    ELSE IF WithinBacklash(volume) THEN "within backlash tolerance"
    ELSE "exceeds tolerances"

\* the message chosen by the if / elif chain
Message(volume) ==
    IF volume = 0 THEN "No interference detected"
    ELSE IF WithinBacklash(volume) THEN "within backlash tolerance"
    ELSE IF WithinManufacturing(volume) THEN "within manufacturing tolerance"
    ELSE "exceeds tolerances"

\* the early return taken only for a missing wheel
InterferenceResultWheelOnly(wheel_found, worm_found, rotation, outcome) ==
    IF ~wheel_found
    THEN [mesh_rotation_deg |-> rotation,
          interference_volume_mm3 |-> 0,
          within_backlash_tolerance |-> FALSE,
          within_manufacturing_tolerance |-> FALSE,
          message |-> "Could not load wheel STEP"]
    ELSE LET volume == InterferenceVolume(outcome) IN
         [mesh_rotation_deg |-> rotation,
          interference_volume_mm3 |-> volume,
          within_backlash_tolerance |-> WithinBacklash(volume),
          within_manufacturing_tolerance |-> WithinManufacturing(volume),
          message |-> Message(volume)]

\* the InterferenceResult of one call
InterferenceResult(wheel_found, worm_found, rotation, outcome) ==
    IF ~wheel_found
    THEN [mesh_rotation_deg |-> rotation,
          interference_volume_mm3 |-> 0,
          within_backlash_tolerance |-> FALSE,
          within_manufacturing_tolerance |-> FALSE,
          message |-> "Could not load wheel STEP"]
    ELSE IF ~worm_found
    THEN [mesh_rotation_deg |-> rotation,
          interference_volume_mm3 |-> 0,
          within_backlash_tolerance |-> FALSE,
          within_manufacturing_tolerance |-> FALSE,
          message |-> "Could not load worm STEP"]
    ELSE LET volume == InterferenceVolume(outcome) IN
         [mesh_rotation_deg |-> rotation,
          interference_volume_mm3 |-> volume,
          within_backlash_tolerance |-> WithinBacklash(volume),
          within_manufacturing_tolerance |-> WithinManufacturing(volume),
          message |-> Message(volume)]

\* the scales, backlashes (0.01 mm) and face widths (0.1 mm) of the configs
Scales == {1, 2}
Backlashes == {0, 10, 20}
FaceWidths == {10, 76}

\* what the kernel can answer for the wheel and the worm
ClsOutcomes ==
    {KernelRaises, 0, 1, 50, 100, 101}
    \cup { t + d : t \in {BacklashVolumeTolerance, ManufacturingVolumeTolerance},
                   d \in {0, 1} }

NoCall == [none |-> TRUE]

ClsBegin ==
    /\ scale \in Scales
    /\ backlash \in Backlashes
    /\ face_width \in FaceWidths
    /\ cls_call = NoCall
    /\ cls_result = NoCall
    /\ cls_prev = NoCall
    /\ optimal = NoCall

ClsIdle ==
    /\ scale = 1
    /\ backlash = 0
    /\ face_width = 76
    /\ cls_call = NoCall
    /\ cls_result = NoCall
    /\ cls_prev = NoCall
    /\ optimal = NoCall

\* the rotations a call is made with, or the search returns
Rotations == {0, 5}

\* what the kernel answers in a call: it is queried only when both files load
CallOutcomes(wheel_found, worm_found) ==
    IF wheel_found /\ worm_found THEN ClsOutcomes ELSE {0}

\* validation.py 443-522: one call of check_wheel_worm_interference
CheckWheelWormInterference ==
    /\ component = "classifier"
    /\ \E wheel_found \in BOOLEAN, worm_found \in BOOLEAN,
          rotation \in Rotations :
          \E outcome \in CallOutcomes(wheel_found, worm_found) :
             /\ cls_call' = [wheel_found |-> wheel_found,
                             worm_found |-> worm_found, outcome |-> outcome]
             /\ cls_result' =
                   InterferenceResult(wheel_found, worm_found, rotation, outcome)
    /\ cls_prev' = cls_result
    /\ UNCHANGED <<component, scale, backlash, face_width, optimal,
                   searchVars, asmVars, cfgVars, buildVars, mirrorVars>>

\* find_optimal_mesh_rotation: the (optimal_rotation, result) it returns, and
\* whether it ran calculate_mesh_rotation; optimal_rotation is what the search
\* returns when it is run
OptimalMeshRotation(wheel_found, worm_found, optimal_rotation, outcome) ==
    IF ~wheel_found \/ ~worm_found
    THEN [rotation |-> 0,
          result |-> InterferenceResult(wheel_found, worm_found, 0, outcome),
          searched |-> FALSE]
    ELSE [rotation |-> optimal_rotation,
          result |-> InterferenceResult(wheel_found, worm_found,
                                        optimal_rotation, outcome),
          searched |-> TRUE]

\* validation.py 544-578: one call of find_optimal_mesh_rotation, the call of
\* check_wheel_worm_interference it ends with included
FindOptimalMeshRotation ==
    /\ component = "classifier"
    /\ \E wheel_found \in BOOLEAN, worm_found \in BOOLEAN,
          optimal_rotation \in Rotations :
          \E outcome \in CallOutcomes(wheel_found, worm_found) :
             /\ optimal' = OptimalMeshRotation(wheel_found, worm_found,
                                               optimal_rotation, outcome)
             /\ cls_call' = [wheel_found |-> wheel_found,
                             worm_found |-> worm_found, outcome |-> outcome]
             /\ cls_result' = optimal'.result
    /\ cls_prev' = cls_result
    /\ UNCHANGED <<component, scale, backlash, face_width,
                   searchVars, asmVars, cfgVars, buildVars, mirrorVars>>

----------------------------------------------------------------------------
(* Fractions <<numerator, denominator>>, denominator > 0, in lowest terms  *)

RECURSIVE GCD(_, _)
GCD(a, b) == IF b = 0 THEN a ELSE GCD(b, a % b)

Abs(a) == IF a < 0 THEN -a ELSE a

FNorm(x) ==
    LET s == IF x[2] < 0 THEN -1 ELSE 1
        g == GCD(Abs(x[1]), Abs(x[2]))
    IN <<(s * x[1]) \div g, (s * x[2]) \div g>>

Frac(n, d) == FNorm(<<n, d>>)
FAdd(x, y) == FNorm(<<x[1] * y[2] + y[1] * x[2], x[2] * y[2]>>)
FNeg(x) == <<-x[1], x[2]>>
FSub(x, y) == FAdd(x, FNeg(y))
FMul(x, y) == FNorm(<<x[1] * y[1], x[2] * y[2]>>)
FDiv(x, y) == FNorm(<<x[1] * y[2], x[2] * y[1]>>)
FLess(x, y) == x[1] * y[2] < y[1] * x[2]
\* Python's x % m for m > 0: the result is in [0, m)
FMod(x, m) == FNorm(<<(x[1] * m[2]) % (m[1] * x[2]), x[2] * m[2]>>)

Zero == <<0, 1>>

----------------------------------------------------------------------------
(* Floats: the fractions m * 2^e with |m| < 2^MantissaBits.  An operation  *)
(* gives the float nearest to the exact result, ties to the even m.        *)

RECURSIVE Pow2(_)
Pow2(k) == IF k = 0 THEN 1 ELSE 2 * Pow2(k - 1)

\* the spacing of the floats around a > 0, found from the spacing u
RECURSIVE Ulp(_, _)
Ulp(a, u) ==
    IF FLess(a, FMul(u, Frac(Pow2(MantissaBits - 1), 1)))
    THEN Ulp(a, FDiv(u, Frac(2, 1)))
    ELSE IF ~FLess(a, FMul(u, Frac(Pow2(MantissaBits), 1)))
    THEN Ulp(a, FMul(u, Frac(2, 1)))
    ELSE u

\* the float nearest to x
FloatRound(x) ==
    IF x[1] = 0 THEN Zero
    ELSE LET a == <<Abs(x[1]), x[2]>>
             u == Ulp(a, Frac(1, 1))
             q == FDiv(a, u)
             m == q[1] \div q[2]
             twice == 2 * (q[1] - m * q[2])
             up == twice > q[2] \/ (twice = q[2] /\ m % 2 = 1)
             r == FMul(Frac(IF up THEN m + 1 ELSE m, 1), u)
         IN IF x[1] < 0 THEN FNeg(r) ELSE r

FloatAdd(x, y) == FloatRound(FAdd(x, y))
FloatSub(x, y) == FloatRound(FSub(x, y))
FloatMul(x, y) == FloatRound(FMul(x, y))
FloatDiv(x, y) == FloatRound(FDiv(x, y))

\* C's fmod(x, m) for m > 0: exact, with the sign of x
Fmod(x, m) ==
    IF x[1] < 0 THEN FNeg(FMod(FNeg(x), m)) ELSE FMod(x, m)

\* Python's float x % m for m > 0: fmod, and a negative remainder has m
\* added to it, which rounds
FloatMod(x, m) ==
    LET mod == Fmod(x, m)
    IN IF mod[1] < 0 THEN FloatAdd(mod, m) ELSE mod

----------------------------------------------------------------------------
(* components.wheel: calculate_mesh_rotation_analytical *)

\* the base alignment folded into the correction
AnalyticalZCorrectionWithBase(teeth, lead, z_offset) ==
    IF z_offset # Zero
    THEN FAdd(Frac(180, teeth), FMul(FDiv(z_offset, lead), Frac(360, teeth)))
    ELSE Zero

\* z_correction = (z_offset / lead) * (360.0 / num_teeth), 0.0 when z_offset is 0
AnalyticalZCorrection(teeth, lead, z_offset) ==
    IF z_offset # Zero
    THEN FMul(FDiv(z_offset, lead), Frac(360, teeth))
    ELSE Zero

\* (rotation_plus, rotation_minus)
MeshRotationAnalytical(teeth, lead, z_offset) ==
    LET base == Frac(180, teeth)
        z_correction == AnalyticalZCorrection(teeth, lead, z_offset)
        tooth_pitch == Frac(360, teeth)
    IN << FMod(FAdd(base, z_correction), tooth_pitch),
          FMod(FSub(base, z_correction), tooth_pitch) >>

\* (rotation_plus, rotation_minus) as the floats compute them
MeshRotationAnalyticalFloat(teeth, lead, z_offset) ==
    LET base == FloatDiv(Frac(180, 1), Frac(teeth, 1))
        z_correction ==
            IF z_offset # Zero
            THEN FloatMul(FloatDiv(z_offset, lead),
                          FloatDiv(Frac(360, 1), Frac(teeth, 1)))
            ELSE Zero
        tooth_pitch == FloatDiv(Frac(360, 1), Frac(teeth, 1))
    IN << FloatMod(FloatAdd(base, z_correction), tooth_pitch),
          FloatMod(FloatSub(base, z_correction), tooth_pitch) >>

----------------------------------------------------------------------------
(* config.defaults: create_default_config *)

\* the fields the dataclasses of config.parameters declare
StringPostFields ==
    {"cap_diameter", "cap_height", "cap_chamfer", "post_diameter",
     "post_height", "bearing_diameter", "post_bearing_axial_play", "dd_cut",
     "dd_cut_clearance", "thread_size", "tap_bore_diameter", "thread_length",
     "string_hole_diameter", "string_hole_position"}

PegHeadFields ==
    {"ring_od", "ring_bore", "ring_width_top", "bore_offset", "chamfer",
     "pip_diameter", "pip_length", "pip_stalk_diameter", "pip_stalk_length",
     "join_diameter", "join_length", "cap_diameter", "cap_length",
     "shoulder_diameter", "shaft_diameter", "worm_length",
     "peg_bearing_axial_play", "washer_clearance", "tap_drill", "tap_depth",
     "screw_thread", "screw_length", "screw_head_diameter",
     "screw_head_depth", "washer_od", "washer_id", "washer_thickness"}

FrameFields ==
    {"box_outer", "wall_thickness", "housing_length", "end_length",
     "num_housings", "tuner_pitch", "post_bearing_hole", "wheel_inlet_hole",
     "worm_entry_hole", "peg_bearing_hole", "mounting_hole"}

\* the defaults of the fields the function reads, in mm
FrameDefaults == [box_outer |-> Frac(10, 1), wall_thickness |-> Frac(11, 10)]
PegHeadDefaults == [shoulder_diameter |-> Frac(7, 1), shaft_diameter |-> Frac(4, 1)]
StringPostDefaults ==
    [bearing_diameter |-> Frac(4, 1), post_bearing_axial_play |-> Frac(2, 10),
     dd_cut_clearance |-> Frac(1, 10)]

\* BEARING_CLEARANCE = 0.05
BearingClearance == Frac(5, 100)

\* kwargs.update(overrides): the overrides win
Updated(kwargs, overrides) == overrides @@ kwargs

\* Dataclass(**kwargs) raises TypeError for a keyword that is no field
Accepts(fields, kwargs) == DOMAIN kwargs \subseteq fields

\* the value of a field of a constructed dataclass
Field(kwargs, defaults, name) ==
    IF name \in DOMAIN kwargs THEN kwargs[name] ELSE defaults[name]

\* math.tan(math.radians(lead_angle_deg)), to four decimals
Tan(lead_angle_deg) ==
    CASE lead_angle_deg = Zero -> Zero
      [] lead_angle_deg = Frac(591, 100) -> Frac(1035, 10000)
      [] lead_angle_deg = Frac(45, 1) -> Frac(1, 1)

\* worm_aligned = mode == ALIGNED or (mode == AUTO and (GLOBOID or hobbing))
WormAligned(g) ==
    \/ g.worm_z_mode = "aligned"
    \/ /\ g.worm_z_mode = "auto"
       /\ (g.worm_type = "globoid" \/ g.virtual_hobbing)

\* defaults.py 428-455: z_offset
ZOffset(g, dd_h, bearing_h, box_outer) ==
    LET post_z_offset == FNeg(FAdd(dd_h, bearing_h))
        wheel_z == FAdd(post_z_offset, FDiv(g.face_width, Frac(2, 1)))
        worm_z_centered == FDiv(FNeg(box_outer), Frac(2, 1))
    IN IF WormAligned(g) THEN Zero ELSE FSub(wheel_z, worm_z_centered)

\* defaults.py 458-459:
\* effective_axial_shift = z_offset * math.tan(lead_angle_rad)
\* z_correction_deg = (effective_axial_shift / lead) * 360.0 / ratio
ZCorrectionDeg(z_offset, lead_angle_deg, lead, ratio) ==
    LET effective_axial_shift == FMul(z_offset, Tan(lead_angle_deg))
    IN FDiv(FMul(FDiv(effective_axial_shift, lead), Frac(360, 1)),
            Frac(ratio, 1))

\* create_default_config: the BuildConfig it returns, or the exception
CreateDefaultConfigOutcome(g, overrides) ==
    LET default_wall ==
            Field(overrides.frame, FrameDefaults, "wall_thickness")
        string_post_kwargs ==
            Updated([dd_cut |-> g.bore, dd_cut_length |-> g.face_width,
                     bearing_length |-> default_wall], overrides.string_post)
        peg_head_kwargs ==
            Updated([worm_length |-> g.worm_length,
                     bearing_wall |-> default_wall], overrides.peg_head)
        worm_entry_hole ==
            FAdd(Field(peg_head_kwargs, PegHeadDefaults, "shoulder_diameter"),
                 BearingClearance)
        peg_bearing_hole ==
            FAdd(Field(peg_head_kwargs, PegHeadDefaults, "shaft_diameter"),
                 BearingClearance)
        post_bearing_hole ==
            FAdd(Field(string_post_kwargs, StringPostDefaults,
                       "bearing_diameter"), BearingClearance)
        frame_kwargs ==
            Updated([worm_entry_hole |-> worm_entry_hole,
                     peg_bearing_hole |-> peg_bearing_hole,
                     post_bearing_hole |-> post_bearing_hole], overrides.frame)
        z_offset ==
            ZOffset(g, string_post_kwargs["dd_cut_length"],
                    string_post_kwargs["bearing_length"],
                    Field(frame_kwargs, FrameDefaults, "box_outer"))
        z_correction_deg ==
            ZCorrectionDeg(z_offset, g.lead_angle_deg, g.lead, g.ratio)
        final_mesh_rotation == FAdd(g.mesh_rotation_deg, z_correction_deg)
    IN IF ~Accepts(StringPostFields, string_post_kwargs)
       THEN [kind |-> "TypeError", at |-> "StringPostParams"]
       ELSE IF ~Accepts(PegHeadFields, peg_head_kwargs)
       THEN [kind |-> "TypeError", at |-> "PegHeadParams"]
       ELSE IF ~Accepts(FrameFields, frame_kwargs)
       THEN [kind |-> "TypeError", at |-> "FrameParams"]
       ELSE IF ~FLess(g.tip_diameter, worm_entry_hole)
       THEN [kind |-> "ValueError", at |-> "worm_entry_hole"]
       ELSE [kind |-> "BuildConfig",
             gear |-> [g EXCEPT !.mesh_rotation_deg = final_mesh_rotation],
             frame |-> frame_kwargs,
             string_post |-> string_post_kwargs,
             peg_head |-> peg_head_kwargs]

\* the gear JSONs: what load_gear_params returns for them (lengths in mm,
\* angles in degrees)
GearJsons ==
    { [num_teeth |-> tr[1], ratio |-> tr[2], lead |-> l, lead_angle_deg |-> a,
       face_width |-> Frac(76, 10), bore |-> Frac(325, 100),
       worm_length |-> Frac(78, 10), tip_diameter |-> tr[3],
       mesh_rotation_deg |-> b, worm_type |-> wh[1],
       virtual_hobbing |-> wh[2], worm_z_mode |-> "auto"] :
        tr \in {<<10, 10, Frac(7, 1)>>, <<13, 13, Frac(7, 1)>>,
                <<20, 10, Frac(15, 2)>>},
        l \in {Frac(1885, 1000), Frac(3, 2)},
        a \in {Frac(591, 100), Frac(45, 1)},
        b \in {Zero, Frac(35, 10)},
        wh \in {<<"cylindrical", FALSE>>, <<"globoid", FALSE>>,
                <<"cylindrical", TRUE>>} }

NoOverrides == [frame |-> <<>>, string_post |-> <<>>, peg_head |-> <<>>]

\* the tuner_config.json files
TunerConfigs ==
    { NoOverrides,
      [frame |-> [box_outer |-> Frac(12, 1)],
       string_post |-> [bearing_diameter |-> Frac(45, 10)],
       peg_head |-> [shaft_diameter |-> Frac(45, 10)]] }

\* the z offsets the analytical function is called with, in mm
ZOffsets ==
    { Zero, Frac(-1, 10), Frac(-2, 10), Frac(1, 1), Frac(2, 1),
      Frac(25, 32) }

CfgBegin ==
    /\ gear \in GearJsons
    /\ tuner_overrides \in TunerConfigs
    /\ cfg_outcome = NoCall
    /\ analytical = <<>>
    /\ analytical_float = <<>>
    /\ unit = NoCall

CfgIdle ==
    /\ gear = NoCall
    /\ tuner_overrides = NoOverrides
    /\ cfg_outcome = NoCall
    /\ analytical = <<>>
    /\ analytical_float = <<>>
    /\ unit = NoCall

\* defaults.py 328-486: one call of create_default_config
CreateDefaultConfig ==
    /\ component = "config"
    /\ cfg_outcome = NoCall
    /\ cfg_outcome' = CreateDefaultConfigOutcome(gear, tuner_overrides)
    /\ UNCHANGED <<component, gear, tuner_overrides, analytical,
                   analytical_float, unit, searchVars, asmVars, clsVars, buildVars, mirrorVars>>

\* wheel.py 165-203: one call of calculate_mesh_rotation_analytical
CalculateMeshRotationAnalytical ==
    /\ component = "config"
    /\ Cardinality(DOMAIN analytical) < MaxCalls
    /\ \E z_offset \in ZOffsets \ DOMAIN analytical :
          /\ analytical' =
                (z_offset :> MeshRotationAnalytical(gear.num_teeth, gear.lead,
                                                    z_offset)) @@ analytical
          /\ analytical_float' =
                (z_offset :> MeshRotationAnalyticalFloat(
                                gear.num_teeth, FloatRound(gear.lead),
                                FloatRound(z_offset))) @@ analytical_float
    /\ UNCHANGED <<component, gear, tuner_overrides, cfg_outcome, unit,
                   searchVars, asmVars, clsVars, buildVars, mirrorVars>>

\* class Hand
Hands == {"right", "left"}

\* the rotation taken from the config as it is, for either hand
MeshRotationUnsigned(hand, mesh_rotation_deg) == mesh_rotation_deg

\* tuner_unit.py 73-75: the rotation applied to the post and the wheel
MeshRotation(hand, mesh_rotation_deg) ==
    IF hand = "left" THEN FNeg(mesh_rotation_deg) ELSE mesh_rotation_deg

\* tuner_unit.py 88-89, 112-113:
\* if mesh_rotation != 0.0: part = part.rotate(Axis.Z, mesh_rotation)
RotatedUnlessZero(mesh_rotation) ==
    IF mesh_rotation # Zero
    THEN [rotated |-> TRUE, angle |-> mesh_rotation]
    ELSE [rotated |-> FALSE, angle |-> Zero]

\* StringPostParams.get_bearing_length(wall_thickness)
GetBearingLength(post, wall_thickness) ==
    FAdd(wall_thickness,
         Field(post, StringPostDefaults, "post_bearing_axial_play"))

\* StringPostParams.get_dd_cut_length(wheel_face_width)
GetDdCutLength(post, wheel_face_width) ==
    FSub(wheel_face_width, Field(post, StringPostDefaults, "dd_cut_clearance"))

\* requires_worm_alignment(config)
RequiresWormAlignment(g) == g.worm_type = "globoid" \/ g.virtual_hobbing

\* calculate_worm_z(config), at scale 1: the height of the worm axis, or the
\* AttributeError of reading a field StringPostParams does not have
CalculateWormZ(g, frame, post) ==
    LET box_outer == Field(frame, FrameDefaults, "box_outer")
        centered == [kind |-> "float", z |-> FDiv(FNeg(box_outer), Frac(2, 1))]
        aligned ==
            IF "dd_cut_length" \notin StringPostFields
            THEN [kind |-> "AttributeError", at |-> "dd_cut_length"]
            ELSE IF "bearing_length" \notin StringPostFields
            THEN [kind |-> "AttributeError", at |-> "bearing_length"]
            ELSE [kind |-> "float",
                  z |-> FAdd(FNeg(FAdd(post["dd_cut_length"],
                                       post["bearing_length"])),
                             FDiv(g.face_width, Frac(2, 1)))]
    IN IF g.worm_z_mode = "centered" THEN centered
       ELSE IF g.worm_z_mode = "aligned" THEN aligned
       ELSE IF RequiresWormAlignment(g) THEN aligned
       ELSE centered

\* tuner_unit.py 64-68, 90, 118: wheel_z, at scale 1
TunerWheelZ(g, frame, post) ==
    LET dd_h == GetDdCutLength(post, g.face_width)
        bearing_h ==
            GetBearingLength(post, Field(frame, FrameDefaults, "wall_thickness"))
        post_z_offset == FNeg(FAdd(dd_h, bearing_h))
    IN FAdd(post_z_offset, FDiv(g.face_width, Frac(2, 1)))

\* build.py 389-402: the worm_z_mode main puts into the config: CENTERED or
\* ALIGNED when forced on the command line, otherwise the loaded one
WormZModesOfBuild(g) == {g.worm_z_mode, "centered", "aligned"}

\* tuner_unit.py 35-258: one call of create_tuner_unit, on a BuildConfig of
\* either hand at scale 1, with the loaded GearParams under the worm_z_mode
\* main chose, and the frame and string post fields of tuner_config.json.
\* The parts are rotated before calculate_worm_z is called, which may raise.
CreateTunerUnit ==
    /\ component = "config"
    /\ \E hand \in Hands, mode \in WormZModesOfBuild(gear) :
          LET g == [gear EXCEPT !.worm_z_mode = mode]
              mesh_rotation == MeshRotation(hand, g.mesh_rotation_deg)
              worm_z == CalculateWormZ(g, tuner_overrides.frame,
                                       tuner_overrides.string_post)
          IN
          unit' = [hand |-> hand,
                   worm_z_mode |-> mode,
                   mesh_rotation |-> mesh_rotation,
                   string_post |-> RotatedUnlessZero(mesh_rotation),
                   wheel |-> RotatedUnlessZero(mesh_rotation),
                   wheel_mirrored |-> (hand = "left"),
                   wheel_z |-> TunerWheelZ(g, tuner_overrides.frame,
                                           tuner_overrides.string_post),
                   worm_z |-> worm_z,
                   outcome |-> IF worm_z.kind = "float" THEN "dict"
                               ELSE worm_z.kind]
    /\ UNCHANGED <<component, gear, tuner_overrides, cfg_outcome, analytical,
                   analytical_float, searchVars, asmVars, clsVars, buildVars, mirrorVars>>

----------------------------------------------------------------------------
(* scripts/build.py: main, from the config on.  The call of                *)
(* create_default_config that main starts with is CreateDefaultConfig.     *)

\* COMPONENTS
Components == {"frame", "string_post", "peg_head", "wheel"}

\* bool(d) of a dict
Truthy(d) == DOMAIN d # {}

\* all_parts of the assembly of n tuners
AssemblyParts(n) ==
    {"frame"} \cup { PartName(name, i) : name \in TunerParts, i \in 1..n }

\* run_interference_report(create_positioned_assembly(config, ...)) for a
\* hand: check_interference is left at its default, False
HandReport(hand) ==
    RunInterferenceReport(AssemblyParts(args.num_housings),
                          [i \in 1..args.num_housings |-> stations[hand]])

BuildRh == args.hand \in {"right", "both"}
BuildLh == args.hand \in {"left", "both"}

\* the basenames main exports for the components asked for
Basenames ==
    { b \in {"frame_rh", "frame_lh", "string_post", "peg_head_rh",
             "peg_head_lh", "wheel_rh", "wheel_lh"} :
        \/ b = "frame_rh" /\ "frame" \in args.components /\ BuildRh
        \/ b = "frame_lh" /\ "frame" \in args.components /\ BuildLh
        \/ b = "string_post" /\ "string_post" \in args.components
        \/ b = "peg_head_rh" /\ "peg_head" \in args.components /\ BuildRh
        \/ b = "peg_head_lh" /\ "peg_head" \in args.components /\ BuildLh
        \/ b = "wheel_rh" /\ "wheel" \in args.components /\ BuildRh
        \/ b = "wheel_lh" /\ "wheel" \in args.components /\ BuildLh }

\* the command lines
ArgSets ==
    [hand : {"right", "left", "both"},
     no_interference : BOOLEAN,
     num_housings : {1, 2},
     components : {Components, {"frame"}, {"wheel", "peg_head"}}]

BuildBegin ==
    /\ args \in ArgSets
    /\ stations \in [Hands -> {Geometry(0, 0, 0, 0), Geometry(50, 0, 0, 0)}]
    /\ build_pc = "configured"
    /\ interference_failed = FALSE
    /\ log = <<>>
    /\ exported = {}

BuildIdle ==
    /\ args = NoCall
    /\ stations = NoCall
    /\ build_pc = "idle"
    /\ interference_failed = FALSE
    /\ log = <<>>
    /\ exported = {}

\* build.py 415-445: the interference check
BuildCheck ==
    /\ component = "build"
    /\ build_pc = "configured"
    /\ IF ~args.no_interference
       THEN /\ interference_failed' =
                  ( \/ BuildRh /\ ~Truthy(HandReport("right"))
                    \/ BuildLh /\ ~Truthy(HandReport("left")) )
            /\ log' = log \o (IF BuildRh THEN <<"check_rh">> ELSE <<>>)
                           \o (IF BuildLh THEN <<"check_lh">> ELSE <<>>)
       ELSE UNCHANGED <<interference_failed, log>>
    /\ build_pc' = "checked"
    /\ UNCHANGED <<component, args, stations, exported,
                   searchVars, asmVars, clsVars, cfgVars, mirrorVars>>

\* build.py 447-529: the components are built and exported, main returns 0
BuildExport ==
    /\ component = "build"
    /\ build_pc = "checked"
    /\ exported' = Basenames
    /\ log' = Append(log, "export")
    /\ build_pc' = "exported"
    /\ UNCHANGED <<component, args, stations, interference_failed,
                   searchVars, asmVars, clsVars, cfgVars, mirrorVars>>

----------------------------------------------------------------------------
(* utils/mirror.py: create_left_hand_config, and the dataclasses of        *)
(* config/parameters.py it constructs                                      *)

\* the defaults of the fields of WormParams
WormParamsDefaults ==
    [module |-> Frac(6, 10), num_starts |-> 1, pitch_diameter |-> Frac(58, 10),
     tip_diameter |-> Frac(7, 1), root_diameter |-> Frac(43, 10),
     lead |-> Frac(1885, 1000), lead_angle_deg |-> Frac(591, 100),
     length |-> Frac(78, 10), hand |-> "right", worm_type |-> "cylindrical",
     throat_reduction |-> Frac(1, 10), throat_curvature_radius |-> Frac(3, 1)]

\* the defaults of the fields of GearParams that have one
GearParamsDefaults ==
    [center_distance |-> Frac(59, 10), pressure_angle_deg |-> Frac(20, 1),
     backlash |-> Zero, extra_backlash |-> Zero, ratio |-> 10,
     mesh_rotation_deg |-> Zero, virtual_hobbing |-> FALSE,
     worm_z_mode |-> "auto"]

\* WormType, WormZMode
WormTypes == {"cylindrical", "globoid"}
WormZModes == {"auto", "centered", "aligned"}

\* Dataclass(**kwargs): the fields not passed take their defaults
Construct(defaults, kwargs) == kwargs @@ defaults

\* create_left_hand_config(rh_config)
CreateLeftHandConfigOf(rh) ==
    LET lh_worm ==
            Construct(WormParamsDefaults,
                [module |-> rh.gear.worm.module,
                 num_starts |-> rh.gear.worm.num_starts,
                 pitch_diameter |-> rh.gear.worm.pitch_diameter,
                 tip_diameter |-> rh.gear.worm.tip_diameter,
                 root_diameter |-> rh.gear.worm.root_diameter,
                 lead |-> rh.gear.worm.lead,
                 lead_angle_deg |-> rh.gear.worm.lead_angle_deg,
                 length |-> rh.gear.worm.length,
                 hand |-> "left",
                 throat_reduction |-> rh.gear.worm.throat_reduction,
                 throat_curvature_radius |->
                     rh.gear.worm.throat_curvature_radius])
        lh_gear ==
            Construct(GearParamsDefaults,
                [worm |-> lh_worm,
                 wheel |-> rh.gear.wheel,
                 center_distance |-> rh.gear.center_distance,
                 pressure_angle_deg |-> rh.gear.pressure_angle_deg,
                 backlash |-> rh.gear.backlash,
                 ratio |-> rh.gear.ratio])
    IN [scale |-> rh.scale,
        tolerance |-> rh.tolerance,
        hand |-> "left",
        frame |-> rh.frame,
        gear |-> lh_gear,
        peg_head |-> rh.peg_head,
        string_post |-> rh.string_post]

\* the right-hand configurations passed in
RightHandConfigs ==
    { [scale |-> s,
       tolerance |-> "production",
       hand |-> "right",
       frame |-> FrameDefaults,
       gear |-> Construct(GearParamsDefaults,
                   [worm |-> Construct(WormParamsDefaults,
                                [lead |-> l, worm_type |-> wt]),
                    wheel |-> [num_teeth |-> 10],
                    extra_backlash |-> eb,
                    mesh_rotation_deg |-> mr,
                    virtual_hobbing |-> vh,
                    worm_z_mode |-> zm]),
       peg_head |-> PegHeadDefaults,
       string_post |-> StringPostDefaults] :
        s \in {Frac(1, 1), Frac(2, 1)},
        l \in {Frac(1885, 1000), Frac(3, 2)},
        wt \in WormTypes,
        eb \in {Zero, Frac(1, 10)},
        mr \in {Zero, Frac(35, 10)},
        vh \in BOOLEAN,
        zm \in WormZModes }

MirrorBegin ==
    /\ rh_config \in RightHandConfigs
    /\ lh_config = NoCall

MirrorIdle ==
    /\ rh_config = NoCall
    /\ lh_config = NoCall

CreateLeftHandConfig ==
    /\ component = "mirror"
    /\ lh_config = NoCall
    /\ lh_config' = CreateLeftHandConfigOf(rh_config)
    /\ UNCHANGED <<component, rh_config, searchVars, asmVars, clsVars,
                   cfgVars, buildVars>>

----------------------------------------------------------------------------
(* Specifications *)

InitSearch ==
    /\ component = "search"
    /\ SearchBegin /\ AsmIdle /\ ClsIdle /\ CfgIdle /\ BuildIdle
    /\ MirrorIdle
InitAssembly ==
    /\ component = "assembly"
    /\ SearchIdle /\ AsmBegin /\ ClsIdle /\ CfgIdle /\ BuildIdle
    /\ MirrorIdle
InitClassifier ==
    /\ component = "classifier"
    /\ SearchIdle /\ AsmIdle /\ ClsBegin /\ CfgIdle /\ BuildIdle
    /\ MirrorIdle
InitConfig ==
    /\ component = "config"
    /\ SearchIdle /\ AsmIdle /\ ClsIdle /\ CfgBegin /\ BuildIdle
    /\ MirrorIdle
InitBuild ==
    /\ component = "build"
    /\ SearchIdle /\ AsmIdle /\ ClsIdle /\ CfgIdle /\ BuildBegin
    /\ MirrorIdle
InitMirror ==
    /\ component = "mirror"
    /\ SearchIdle /\ AsmIdle /\ ClsIdle /\ CfgIdle /\ BuildIdle
    /\ MirrorBegin

NextSearch ==
    \/ StartSearch
    \/ CoarseProbe
    \/ BeginFine
    \/ FineProbe
    \/ ReturnRotation

NextAssembly ==
    \/ AddTuner
    \/ FinishAssembly
    \/ ReportAssembly
    \/ ReportWithoutRaising

NextClassifier ==
    \/ CheckWheelWormInterference
    \/ FindOptimalMeshRotation

NextConfig ==
    \/ CreateDefaultConfig
    \/ CalculateMeshRotationAnalytical
    \/ CreateTunerUnit

NextBuild ==
    \/ BuildCheck
    \/ BuildExport

NextMirror == CreateLeftHandConfig

SpecSearch == InitSearch /\ [][NextSearch]_vars
SpecAssembly == InitAssembly /\ [][NextAssembly]_vars
SpecClassifier == InitClassifier /\ [][NextClassifier]_vars
SpecConfig == InitConfig /\ [][NextConfig]_vars
SpecBuild == InitBuild /\ [][NextBuild]_vars
SpecMirror == InitMirror /\ [][NextMirror]_vars

\* the two components that issue independent probes
SpecProbes ==
    (InitSearch \/ InitAssembly) /\ [][NextSearch \/ NextAssembly]_vars

Init ==
    \/ InitSearch \/ InitAssembly \/ InitClassifier
    \/ InitConfig \/ InitBuild \/ InitMirror
Next ==
    \/ NextSearch \/ NextAssembly \/ NextClassifier
    \/ NextConfig \/ NextBuild \/ NextMirror
Spec == Init /\ [][Next]_vars

----------------------------------------------------------------------------
(* Properties *)

RECURSIVE SumOver(_, _)
\* the sum of f over the set keys
SumOver(f, keys) ==
    IF keys = {} THEN 0
    ELSE LET k == CHOOSE k \in keys : TRUE
         IN f[k] + SumOver(f, keys \ {k})

\* the volume a check contributes: what the kernel measured, 0 if it raised
Scored(outcome) == IF outcome = KernelRaises THEN 0 ELSE outcome

DescSet == {"gear mesh", "post in hole", "worm in hole", "wheel in cavity"}

\* the volume tuner i contributes
StationVolume(i) == SumOver([d \in DescSet |-> Scored(tuners[i][d])], DescSet)

\* the volume all the tuners contribute
AssemblyVolume ==
    SumOver([i \in 1..Len(tuners) |-> StationVolume(i)], 1..Len(tuners))

\* the key of a check, written out
KeyOf(i, d) ==
    CASE d = "gear mesh" -> "tuner_" \o ToString(i) \o "_gear_mesh"
      [] d = "post in hole" -> "tuner_" \o ToString(i) \o "_post_in_hole"
      [] d = "worm in hole" -> "tuner_" \o ToString(i) \o "_worm_in_hole"
      [] d = "wheel in cavity" -> "tuner_" \o ToString(i) \o "_wheel_in_cavity"

\* dict b is the full per-check breakdown of the built assembly
IsBreakdown(b) ==
    /\ DOMAIN b = {KeyOf(i, d) : i \in 1..Len(tuners), d \in DescSet}
                    \cup {"total"}
    /\ \A i \in 1..Len(tuners), d \in DescSet :
          b[KeyOf(i, d)] = Scored(tuners[i][d])
    /\ b["total"] = AssemblyVolume

\* the reports the assembly functions have handed out
Reports ==
    (IF error # NoDict THEN {error} ELSE {})
    \cup (IF report # NoDict THEN {report} ELSE {})
    \cup (IF result # NoDict /\ "interference" \in DOMAIN result
          THEN {result.interference} ELSE {})

CoarseProbes == SelectSeq(probes, LAMBDA q : q.phase = "coarse")
FineProbes == SelectSeq(probes, LAMBDA q : q.phase = "fine")

\* the volume the search measured at an angle it probed
Measured(angle) == Scored(kernel[angle])

\* C1: every angle calculate_mesh_rotation returns is in [0, 360/num_teeth)
C1_ReturnedWithinToothPitch ==
    \A k \in 1..Len(returned) :
        0 <= returned[k] /\ returned[k] < 360 * TicksPerDegree

\* C2: the volume measured at the returned angle is at most the volume
\* measured at angle 0, a failed probe counting as 0
C2_NoWorseThanBaseline ==
    pc = "done" => Measured(returned[Len(returned)]) <= Measured(0)

C2_Witness ==
    /\ pc = "done"
    /\ returned[Len(returned)] # 0
    /\ Measured(returned[Len(returned)]) < Measured(0)
    /\ \E k \in 1..Len(probes) : probes[k].outcome = KernelRaises

\* C3: with check_interference=True the assembly raises exactly when the total
\* is >= 0.03 x num_housings, the error carrying the full breakdown with
\* 'total'; below the threshold it returns with result['interference'] equal
\* to that breakdown
C3_RaisesExactlyAtThreshold ==
    /\ asm_pc = "raised" =>
          /\ check_flag
          /\ AssemblyVolume >= 30 * num_housings
          /\ IsBreakdown(error)
    /\ (asm_pc \in {"returned", "reported"} /\ check_flag) =>
          /\ AssemblyVolume < 30 * num_housings
          /\ "interference" \in DOMAIN result
          /\ IsBreakdown(result.interference)

C3_Witness ==
    /\ asm_pc = "raised"
    /\ num_housings = 3
    /\ error["total"] = 90
    /\ error["tuner_3_gear_mesh"] = 50

\* C4: a measured volume v is classified by the first matching rule of:
\* v = 0 none; 0 < v <= backlash budget within backlash; backlash budget < v
\* <= manufacturing budget within manufacturing; v > manufacturing budget
\* exceeds
C4_FirstMatchPolicy ==
    (cls_result # NoCall /\ cls_call.wheel_found /\ cls_call.worm_found) =>
        LET v == cls_result.interference_volume_mm3
            b == backlash * scale * face_width * scale
            m == 1000 * scale * scale * scale
            first == v = 0
            second == 0 < v /\ v <= b
            third == b < v /\ v <= m
            fourth == v > m
        IN /\ v = Scored(cls_call.outcome)
           /\ first => cls_result.message = "No interference detected"
           /\ (~first /\ second) =>
                 cls_result.message = "within backlash tolerance"
           /\ (~first /\ ~second /\ third) =>
                 cls_result.message = "within manufacturing tolerance"
           /\ (~first /\ ~second /\ ~third /\ fourth) =>
                 cls_result.message = "exceeds tolerances"
           /\ first \/ second \/ third \/ fourth

C4_Witness ==
    /\ cls_result # NoCall
    /\ cls_call.wheel_found /\ cls_call.worm_found
    /\ backlash * scale * face_width * scale = 100
    /\ scale = 1
    /\ cls_result.interference_volume_mm3 = 50
    /\ cls_result.message = "within backlash tolerance"

\* C5: in every report 'total' is the sum of the other entries, which is the
\* sum of the per-station subtotals; K stations contributing v each total
\* K*v, and the assembly rejects from 0.03*K on
C5_TotalIsSum ==
    /\ \A b \in Reports :
          /\ b["total"] = SumOver(b, DOMAIN b \ {"total"})
          /\ b["total"] = AssemblyVolume
          /\ (\A i \in 1..Len(tuners) : tuners[i] = tuners[1]) =>
                b["total"] = Len(tuners) * StationVolume(1)
    /\ asm_pc = "raised" => error["total"] >= 30 * Len(tuners)
    /\ (asm_pc = "returned" /\ check_flag) =>
          result.interference["total"] < 30 * Len(tuners)

C5_Witness ==
    /\ asm_pc = "returned"
    /\ check_flag
    /\ Len(tuners) = 5
    /\ \A i \in 1..5 : tuners[i] = Geometry(20, 0, 0, 0)
    /\ result.interference["total"] = 100

\* C6: at every volume query a kernel failure is scored 0: a failed probe
\* neither stops the search nor enters a result as anything but 0, and no
\* reported volume is negative
C6_FailuresScoreZero ==
    /\ \A k \in 1..Len(probes) :
          /\ probes[k].interference >= 0
          /\ probes[k].outcome = KernelRaises => probes[k].interference = 0
    /\ min_interference >= 0
    /\ pc = "done" =>
          /\ Len(returned) > 0
          /\ returned[Len(returned)] \in {probes[k].angle : k \in 1..Len(probes)}
    /\ \A b \in Reports :
          /\ \A key \in DOMAIN b : b[key] >= 0
          /\ \A i \in 1..Len(tuners), d \in DescSet :
                tuners[i][d] = KernelRaises => b[KeyOf(i, d)] = 0
    /\ cls_result # NoCall =>
          /\ cls_result.interference_volume_mm3 >= 0
          /\ cls_call.outcome = KernelRaises =>
                cls_result.interference_volume_mm3 = 0

C6_Witness ==
    /\ pc = "done"
    /\ \E k \in 1..Len(probes) :
          probes[k].phase = "coarse" /\ probes[k].outcome = KernelRaises
    /\ \E k \in 1..Len(probes) :
          probes[k].phase = "fine" /\ probes[k].outcome = KernelRaises
    /\ \E k \in 1..Len(probes) : probes[k].outcome > 0

\* C7: a run issues floor(pitch/coarse_step)+1 coarse queries at the angles
\* i*coarse_step, then 2*floor(coarse_step/fine_step)+1 fine queries, one per
\* candidate, never one twice in a row because of a failure; 28 coarse
\* queries for 13 teeth at a coarse step of 1.0 degree
C7_ProbeCounts ==
    LET nc == Len(CoarseProbes)
        nf == Len(FineProbes)
        pitch == 360 * TicksPerDegree
        cs == coarse_step * num_teeth
        fs == fine_step * num_teeth
    IN /\ \A k \in 1..Len(probes) :
             probes[k].phase = "coarse" <=> k <= nc
       /\ \A k \in 1..nc : probes[k].angle = (k - 1) * cs
       /\ pc \in {"fine", "done"} =>
             /\ (nc - 1) * cs <= pitch
             /\ pitch < nc * cs
             /\ (num_teeth = 13 /\ coarse_step = TicksPerDegree) => nc = 28
       /\ pc = "coarse" => nf = 0 /\ nc = idx
       /\ pc = "fine" => nf = idx
       /\ pc = "done" =>
             /\ nf % 2 = 1
             /\ ((nf - 1) \div 2) * fs <= cs
             /\ cs < (((nf - 1) \div 2) + 1) * fs

C7_Witness ==
    /\ pc = "done"
    /\ num_teeth = 13
    /\ Len(CoarseProbes) = 28
    /\ Len(FineProbes) = 21
    /\ \A k \in 1..Len(probes) : probes[k].outcome = KernelRaises

\* C8: runs of the search on the same inputs and the same kernel return the
\* same angle
C8_Deterministic ==
    \A j \in 1..Len(returned), k \in 1..Len(returned) :
        returned[j] = returned[k]

C8_Witness ==
    /\ Len(returned) = 2
    /\ returned[1] # 0
    /\ pc = "done"

\* C9: with z_offset = 0 the correction is 0: create_default_config returns a
\* config whose gear.mesh_rotation_deg is the loaded base rotation when the
\* worm is aligned, and the analytical function returns 180/num_teeth twice
C9_ZeroOffsetZeroCorrection ==
    /\ (cfg_outcome # NoCall /\ WormAligned(gear)) =>
          /\ cfg_outcome.kind = "BuildConfig"
          /\ cfg_outcome.gear.mesh_rotation_deg = gear.mesh_rotation_deg
    /\ Zero \in DOMAIN analytical =>
          analytical[Zero] = <<Frac(180, gear.num_teeth),
                               Frac(180, gear.num_teeth)>>

\* C10: the correction is linear in z_offset: correction(2z) = 2 correction(z);
\* the rotations the analytical function returns for z and 2z, less the base,
\* agree modulo the tooth pitch
C10_LinearInZOffset ==
    component = "config" =>
        LET two == Frac(2, 1)
            base == Frac(180, gear.num_teeth)
            pitch == Frac(360, gear.num_teeth)
            Corr(z) == ZCorrectionDeg(z, gear.lead_angle_deg, gear.lead,
                                      gear.ratio)
        IN /\ \A z \in ZOffsets : Corr(FMul(two, z)) = FMul(two, Corr(z))
           /\ \A z \in DOMAIN analytical :
                 FMul(two, z) \in DOMAIN analytical =>
                    \A side \in {1, 2} :
                       FMod(FSub(analytical[FMul(two, z)][side], base), pitch)
                       = FMod(FMul(two, FSub(analytical[z][side], base)), pitch)

C10_Witness ==
    /\ component = "config"
    /\ {Frac(1, 1), Frac(2, 1)} \subseteq DOMAIN analytical
    /\ FLess(analytical[Frac(1, 1)][1], Frac(180, gear.num_teeth))
    /\ analytical[Frac(2, 1)][1] # analytical[Frac(1, 1)][1]

\* C11: the correction the analytical function uses for a z_offset is the
\* correction ((z_offset * tan(lead_angle)) / lead) * 360 / ratio that
\* create_default_config computes, when ratio = num_teeth; so the two
\* candidates it returns are the base plus and minus that correction
C11_SameCorrectionEverywhere ==
    \A z \in DOMAIN analytical :
        gear.ratio = gear.num_teeth =>
            LET corr == ZCorrectionDeg(z, gear.lead_angle_deg, gear.lead,
                                       gear.ratio)
                base == Frac(180, gear.num_teeth)
                pitch == Frac(360, gear.num_teeth)
            IN /\ AnalyticalZCorrection(gear.num_teeth, gear.lead, z) = corr
               /\ analytical[z] = << FMod(FAdd(base, corr), pitch),
                                     FMod(FSub(base, corr), pitch) >>

\* C12: each of the two candidates calculate_mesh_rotation_analytical returns
\* lies in [0, 360/num_teeth), for a z_offset of either sign
C12_CandidatesWithinToothPitch ==
    \A z \in DOMAIN analytical_float :
        \A side \in {1, 2} :
            /\ ~FLess(analytical_float[z][side], Zero)
            /\ FLess(analytical_float[z][side],
                     FloatDiv(Frac(360, 1), Frac(gear.num_teeth, 1)))

\* C13: the rotation create_default_config stores in gear.mesh_rotation_deg,
\* and the rotation create_tuner_unit applies to the wheel for either hand,
\* lie in [0, 360/num_teeth)
C13_RotationsReduced ==
    LET pitch == Frac(360, gear.num_teeth)
        Reduced(a) == ~FLess(a, Zero) /\ FLess(a, pitch)
    IN /\ cfg_outcome # NoCall =>
             /\ cfg_outcome.kind = "BuildConfig"
             /\ Reduced(cfg_outcome.gear.mesh_rotation_deg)
       /\ unit # NoCall => Reduced(unit.mesh_rotation)

\* the severity of a verdict: NONE < WITHIN_BACKLASH < WITHIN_MANUFACTURING
\* < EXCEEDS
Severity(message) ==
    CASE message = "No interference detected" -> 0
      [] message = "within backlash tolerance" -> 1
      [] message = "within manufacturing tolerance" -> 2
      [] message = "exceeds tolerances" -> 3

\* the result is a verdict on a measured volume
IsVerdict(r) ==
    /\ r # NoCall
    /\ r.message \in {"No interference detected", "within backlash tolerance",
                      "within manufacturing tolerance", "exceeds tolerances"}

\* C14: for a fixed config, of two verdicts the one on the smaller volume is
\* not the more severe, whichever of the two budgets is the larger
C14_SeverityMonotonic ==
    (IsVerdict(cls_prev) /\ IsVerdict(cls_result)) =>
        /\ cls_prev.interference_volume_mm3 >= 0
        /\ cls_result.interference_volume_mm3 >= 0
        /\ cls_prev.interference_volume_mm3
              <= cls_result.interference_volume_mm3
           => Severity(cls_prev.message) <= Severity(cls_result.message)
        /\ cls_result.interference_volume_mm3
              <= cls_prev.interference_volume_mm3
           => Severity(cls_result.message) <= Severity(cls_prev.message)

C14_Witness ==
    /\ IsVerdict(cls_prev) /\ IsVerdict(cls_result)
    /\ BacklashVolumeTolerance > ManufacturingVolumeTolerance
    /\ cls_prev.interference_volume_mm3 = ManufacturingVolumeTolerance + 1
    /\ cls_result.interference_volume_mm3 = BacklashVolumeTolerance + 1
    /\ Severity(cls_prev.message) = 1
    /\ Severity(cls_result.message) = 3

C16_ReportKeys ==
    LET N == Len(tuners)
        I(i) == ToString(i)
    IN \A b \in Reports :
          /\ N = num_housings
          /\ Cardinality(DOMAIN b) = 4 * N + 1
          /\ DOMAIN b =
                {"total"}
                \cup {"tuner_" \o I(i) \o "_gear_mesh" : i \in 1..N}
                \cup {"tuner_" \o I(i) \o "_post_in_hole" : i \in 1..N}
                \cup {"tuner_" \o I(i) \o "_worm_in_hole" : i \in 1..N}
                \cup {"tuner_" \o I(i) \o "_wheel_in_cavity" : i \in 1..N}
          /\ \A i \in 1..N :
                /\ CheckPair(i, "gear mesh")
                      = <<"wheel_" \o I(i), "peg_head_" \o I(i)>>
                /\ CheckPair(i, "post in hole")
                      = <<"string_post_" \o I(i), "frame">>
                /\ CheckPair(i, "worm in hole")
                      = <<"peg_head_" \o I(i), "frame">>
                /\ CheckPair(i, "wheel in cavity")
                      = <<"wheel_" \o I(i), "frame">>
                /\ \A d \in DescSet :
                      /\ CheckPair(i, d)[1] \in all_parts
                      /\ CheckPair(i, d)[2] \in all_parts

C16_Witness ==
    /\ asm_pc = "reported"
    /\ ~check_flag
    /\ Len(tuners) = 3
    /\ Cardinality(DOMAIN report) = 13
    /\ "tuner_3_wheel_in_cavity" \in DOMAIN report

\* C17: run_interference_report returns, whatever the volumes, the breakdown
\* the raising mode attaches to its error; with check_interference=False the
\* assembly never raises and its result has no 'interference' key
C17_NonRaisingMode ==
    /\ ~check_flag =>
          /\ asm_pc # "raised"
          /\ error = NoDict
          /\ result # NoDict => "interference" \notin DOMAIN result
    /\ report # NoDict => IsBreakdown(report)
    /\ (error # NoDict /\ report # NoDict) => report = error

C17_Witness ==
    /\ asm_pc = "raised"
    /\ report # NoDict
    /\ report = error
    /\ report["total"] = 250
    /\ num_housings = 5

\* C18: no step of the search changes the pose of the caller's wheel or worm
\* handle, and no step that produces a report changes the parts of the
\* assembly
C18_HandlesUnchanged ==
    [][ /\ wheel' = wheel
        /\ worm' = worm
        /\ (report' # report \/ error' # error \/ result' # result) =>
              /\ all_parts' = all_parts
              /\ tuners' = tuners ]_vars

C18_Witness ==
    /\ pc = "done"
    /\ wheel = 0
    /\ worm = 0
    /\ \E k \in 1..Len(probes) :
          probes[k].phase = "coarse" /\ probes[k].angle # 0
    /\ \E k \in 1..Len(probes) :
          probes[k].phase = "fine" /\ probes[k].angle # 0
    /\ best_rotation # 0

----------------------------------------------------------------------------
(* C19 *)

\* the interference check of a hand main builds fails: its reported total
\* reaches the threshold the assembly gate rejects at
CheckFails(hand) ==
    /\ \/ hand = "right" /\ BuildRh
       \/ hand = "left" /\ BuildLh
    /\ Rejects(HandReport(hand), args.num_housings)

----------------------------------------------------------------------------
(* C20 *)

\* the fields of record a other than those named that differ in record b
Differing(a, b, except) ==
    { f \in (DOMAIN a \cup DOMAIN b) \ except :
        f \notin DOMAIN a \/ f \notin DOMAIN b \/ a[f] # b[f] }

\* C20: create_left_hand_config changes only hand and worm.hand, both from
\* RIGHT to LEFT: every other field of the returned BuildConfig, of its
\* GearParams and of its WormParams equals that field of the input.
\* The code does not pass worm_type, extra_backlash, mesh_rotation_deg,
\* virtual_hobbing and worm_z_mode on, so that they fall back to their
\* defaults.
C20_OnlyHandsChange ==
    (component = "mirror" /\ lh_config # NoCall) =>
        /\ rh_config.hand = "right" /\ lh_config.hand = "left"
        /\ rh_config.gear.worm.hand = "right"
        /\ lh_config.gear.worm.hand = "left"
        /\ Differing(rh_config, lh_config, {"hand", "gear"}) = {}
        /\ Differing(rh_config.gear, lh_config.gear, {"worm"}) = {}
        /\ Differing(rh_config.gear.worm, lh_config.gear.worm, {"hand"}) = {}

----------------------------------------------------------------------------
(* C21 *)

\* frame.worm_entry_hole of the BuildConfig built from the overrides: the
\* override when tuner_config.json gives one, otherwise the peg head's
\* shoulder diameter plus the bearing clearance
EntryHole(overrides) ==
    IF "worm_entry_hole" \in DOMAIN overrides.frame
    THEN overrides.frame["worm_entry_hole"]
    ELSE FAdd(Field(overrides.peg_head, PegHeadDefaults, "shoulder_diameter"),
              BearingClearance)

\* C21: every BuildConfig create_default_config returns has
\* gear.worm.tip_diameter < frame.worm_entry_hole, and when the worm tip does
\* not fit the entry hole the call raises ValueError, whatever the gear JSON
\* and the overrides.  The code raises TypeError before it gets to the fit
\* check.
C21_WormFitsOrValueError ==
    (component = "config" /\ cfg_outcome # NoCall) =>
        /\ cfg_outcome.kind = "BuildConfig" =>
              FLess(cfg_outcome.gear.tip_diameter,
                    Field(cfg_outcome.frame, FrameDefaults, "worm_entry_hole"))
        /\ ~FLess(gear.tip_diameter, EntryHole(tuner_overrides)) =>
              cfg_outcome.kind = "ValueError"

----------------------------------------------------------------------------
(* C22 *)

\* C22: the fine phase probes exactly the candidates c + k * fine_step for
\* k = -R..R, in this order, c being the coarse optimum and
\* R = floor(coarse_step / fine_step); each candidate is reduced modulo the
\* tooth pitch before it is probed, and a fine candidate that becomes the
\* new best is stored reduced
C22_FineCandidatesReduced ==
    (component = "search" /\ pc \in {"fine", "done"}) =>
        LET R == coarse_step \div fine_step
            pitch == 360 * TicksPerDegree
            candidate(k) == fine_center + k * fine_step * num_teeth
        IN /\ Len(FineProbes) <= 2 * R + 1
           /\ pc = "done" => Len(FineProbes) = 2 * R + 1
           /\ \A j \in 1..Len(FineProbes) :
                 /\ FineProbes[j].angle = candidate(j - 1 - R) % pitch
                 /\ 0 <= FineProbes[j].angle /\ FineProbes[j].angle < pitch
           /\ best_rotation # fine_center =>
                 /\ 0 <= best_rotation /\ best_rotation < pitch
                 /\ \E j \in 1..Len(FineProbes) :
                       /\ FineProbes[j].angle = best_rotation
                       /\ FineProbes[j].interference = min_interference

\* a candidate below 0 wrapped around to 3 degrees and became the best
C22_Witness ==
    /\ component = "search"
    /\ pc = "done"
    /\ num_teeth = 90
    /\ coarse_step = 2 * TicksPerDegree
    /\ fine_step = TicksPerDegree
    /\ fine_center = 0
    /\ best_rotation = 3 * TicksPerDegree * 90
    /\ returned[Len(returned)] = best_rotation

----------------------------------------------------------------------------
(* C23 *)

\* the least volume the probes of the current run scored
RunMinimum ==
    CHOOSE m \in {probes[k].interference : k \in 1..Len(probes)} :
        \A k \in 1..Len(probes) : m <= probes[k].interference

\* the position of the first probe of the current run that scored v
FirstScoring(v) ==
    CHOOSE j \in 1..Len(probes) :
        /\ probes[j].interference = v
        /\ \A k \in 1..(j - 1) : probes[k].interference # v

\* C23: the running minimum is replaced only by a strictly smaller volume,
\* so the angle returned is the earliest probed angle, in probe order (the
\* coarse angles ascending, then the fine candidates ascending), whose
\* volume is the minimum over all probes of the run
C23_EarliestMinimumWins ==
    /\ (component = "search" /\ Len(probes) > 0) =>
          /\ min_interference = RunMinimum
          /\ best_rotation = probes[FirstScoring(RunMinimum)].angle
    /\ (component = "search" /\ pc = "done") =>
          returned[Len(returned)] = probes[FirstScoring(RunMinimum)].angle

\* the minimum was scored at two different angles, the first a fine
\* candidate, and the earlier one was returned
C23_Witness ==
    /\ component = "search"
    /\ pc = "done"
    /\ \E j, k \in 1..Len(probes) :
          /\ j < k
          /\ probes[j].phase = "fine"
          /\ probes[j].angle # probes[k].angle
          /\ probes[j].interference = RunMinimum
          /\ probes[k].interference = RunMinimum
          /\ \A i \in 1..(j - 1) : probes[i].interference > RunMinimum
          /\ returned[Len(returned)] = probes[j].angle

----------------------------------------------------------------------------
(* C24 *)

\* the list in reverse
Reversed(seq) == [j \in 1..Len(seq) |-> seq[Len(seq) + 1 - j]]

\* the list with its first element moved to the end
RotatedLeft(seq) ==
    [j \in 1..Len(seq) |-> IF j = Len(seq) THEN seq[1] ELSE seq[j + 1]]

\* the orders a list is evaluated in: all of them for a short list
Orders(seq) ==
    IF Len(seq) <= MaxPermuted
    THEN { [j \in 1..Len(seq) |-> seq[p[j]]] :
             p \in Permutations(1..Len(seq)) }
    ELSE { seq, Reversed(seq), RotatedLeft(seq), Reversed(RotatedLeft(seq)) }

\* the coarse loop run to its end in the order given
CoarseResult(order) == CoarseLoop(order, Len(order))

\* the coarse angles that scored the least coarse volume
CoarseMinimisers ==
    { i \in 0..(CoarseCount - 1) :
        Interference(kernel[CoarseAngle(i)])
        = CoarseResult(CoarseOrder).min_interference }

\* C24, as claimed: probes may be evaluated in any order without changing
\* results: the coarse angles in any order give the coarse optimum, angle
\* and volume, of the sequential order (and so the same returned angle), and
\* the per-station checks in any order give the same breakdown and total.
\* With two coarse angles tied at the minimum the first one evaluated wins,
\* so the angle depends on the order.
C24_AnyOrderSameResult ==
    /\ (component = "search" /\ pc \in {"fine", "done"}) =>
          /\ CoarseResult(CoarseOrder).best_rotation = fine_center
          /\ \A order \in Orders(CoarseOrder) :
                CoarseResult(order) = CoarseResult(CoarseOrder)
    /\ (component = "assembly" /\ report # NoDict) =>
          \A order \in Orders(ReportOrder(Len(tuners))) :
              ReportLoop(all_parts, tuners, order, Len(order)) = report

\* C24, amended: when the coarse loop has ended, the coarse angles taken in
\* any order give the same least coarse volume, and the same coarse optimum
\* angle when a single coarse angle scores it; the per-station checks in any
\* order give the same breakdown and total
C24_OrderIndependentMinimum ==
    /\ (component = "search" /\ pc = "fine" /\ idx = 0) =>
          LET sequential == CoarseResult(CoarseOrder)
              single == Cardinality(CoarseMinimisers) = 1
          IN /\ sequential.best_rotation = best_rotation
             /\ sequential.min_interference = min_interference
             /\ \A order \in Orders(CoarseOrder) :
                   /\ CoarseResult(order).min_interference = min_interference
                   /\ single => CoarseResult(order).best_rotation
                                 = best_rotation
    /\ (component = "assembly" /\ report # NoDict) =>
          \A order \in Orders(ReportOrder(Len(tuners))) :
              ReportLoop(all_parts, tuners, order, Len(order)) = report

\* three coarse angles scoring 2, 0 and 1: taken last to first, the optimum is
\* still the middle one
C24_Witness ==
    /\ component = "search"
    /\ pc = "fine"
    /\ idx = 0
    /\ num_teeth = 90
    /\ coarse_step = 2 * TicksPerDegree
    /\ Interference(kernel[CoarseAngle(0)]) = 2
    /\ Interference(kernel[CoarseAngle(1)]) = 0
    /\ Interference(kernel[CoarseAngle(2)]) = 1
    /\ fine_center = CoarseAngle(1)
    /\ CoarseResult(<<2, 1, 0>>).best_rotation = CoarseAngle(1)

----------------------------------------------------------------------------
(* C25 *)

\* C25: create_tuner_unit rotates the string post and the wheel by the same
\* angle in every configuration: config.gear.mesh_rotation_deg for the right
\* hand, its negation for the left hand; when the angle is 0 neither part is
\* rotated
C25_PostAndWheelRotateTogether ==
    (component = "config" /\ unit # NoCall) =>
        LET angle == IF unit.hand = "right"
                     THEN gear.mesh_rotation_deg
                     ELSE <<-gear.mesh_rotation_deg[1],
                            gear.mesh_rotation_deg[2]>>
        IN /\ unit.string_post = unit.wheel
           /\ unit.string_post.angle = angle
           /\ unit.wheel.angle = angle
           /\ unit.string_post.rotated <=> angle # <<0, 1>>
           /\ unit.wheel.rotated <=> angle # <<0, 1>>

\* a left-hand unit built on a base rotation of 3.5 degrees
C25_Witness ==
    /\ component = "config"
    /\ unit # NoCall
    /\ unit.hand = "left"
    /\ gear.mesh_rotation_deg = <<7, 2>>
    /\ unit.wheel.rotated
    /\ unit.string_post.angle = <<-7, 2>>

----------------------------------------------------------------------------
(* C26 *)

\* run_interference_report prints "All interference checks PASSED" for a
\* total below 0.01 mm^3
PassLimit == 10

\* the report of a hand main builds shows interference
ReportShowsInterference(hand) ==
    /\ \/ hand = "right" /\ BuildRh
       \/ hand = "left" /\ BuildLh
    /\ HandReport(hand)["total"] >= PassLimit

----------------------------------------------------------------------------
(* C27 *)

\* C27: the two tolerance tiers of an InterferenceResult are nested: for
\* every volume, scale, backlash and face width, within_backlash_tolerance
\* implies within_manufacturing_tolerance.  The two budgets are computed
\* independently, and the backlash budget exceeds the manufacturing budget
\* once backlash x face width is more than 1 mm^2 x scale.
C27_TiersNested ==
    (component = "classifier" /\ cls_result # NoCall) =>
        (cls_result.within_backlash_tolerance
            => cls_result.within_manufacturing_tolerance)

----------------------------------------------------------------------------
(* C28 *)

\* C28: whenever create_positioned_assembly raises AssemblyInterferenceError
\* the message names at least one offending check: the list of the checks
\* with a volume of at least 0.01 mm^3 is not empty.  The raise is decided
\* on the total, which reaches 0.03 mm^3 per housing with four checks of a
\* tuner each below 0.01.
C28_ErrorNamesACheck ==
    (component = "assembly" /\ asm_pc = "raised") => Failures(error) # {}

----------------------------------------------------------------------------
(* C29 *)

\* the positions of the coarse probes of the current run that measured a
\* volume of 0 or failed
ZeroCoarseProbes ==
    { k \in 1..Len(probes) :
        /\ probes[k].phase = "coarse"
        /\ probes[k].outcome \in {0, KernelRaises} }

\* C29: if a coarse probe scores 0, by a true zero volume or by a failed
\* probe, the search returns the first such coarse angle: no later coarse
\* probe and no fine probe replaces it, volumes being never negative; a
\* failed probe is not told apart from a perfect mesh
C29_FirstZeroCoarseProbeWins ==
    (component = "search" /\ ZeroCoarseProbes # {}) =>
        LET first == CHOOSE k \in ZeroCoarseProbes :
                         \A j \in ZeroCoarseProbes : k <= j
        IN /\ min_interference = 0
           /\ best_rotation = probes[first].angle
           /\ pc = "done" => returned[Len(returned)] = probes[first].angle

\* the first coarse probe measured 1, the second failed, a later fine probe
\* measured a true 0: the angle of the failed probe was returned
C29_Witness ==
    /\ component = "search"
    /\ pc = "done"
    /\ probes[1].outcome = 1
    /\ probes[2].phase = "coarse"
    /\ probes[2].outcome = KernelRaises
    /\ \E k \in 3..Len(probes) :
          /\ probes[k].phase = "fine"
          /\ probes[k].outcome = 0
          /\ probes[k].angle # probes[2].angle
    /\ returned[Len(returned)] = probes[2].angle

----------------------------------------------------------------------------
(* C30 *)

\* the z_offset create_default_config computes its correction from, for the
\* loaded gear and overrides (defaults.py 428-455)
ConfigZOffset ==
    LET default_wall ==
            Field(tuner_overrides.frame, FrameDefaults, "wall_thickness")
        string_post_kwargs ==
            Updated([dd_cut_length |-> gear.face_width,
                     bearing_length |-> default_wall],
                    tuner_overrides.string_post)
    IN ZOffset(gear, string_post_kwargs["dd_cut_length"],
               string_post_kwargs["bearing_length"],
               Field(tuner_overrides.frame, FrameDefaults, "box_outer"))

\* C30: in every build sequence, create_default_config followed by the
\* worm_z_mode main may force, there is a config, and the correction in its
\* gear.mesh_rotation_deg was computed from the z_offset = wheel_z - worm_z
\* the assembly then has: 0 exactly when calculate_worm_z puts the worm at
\* the height of the wheel centre, otherwise from the heights
\* create_tuner_unit applies.  create_default_config raises TypeError;
\* calculate_worm_z raises AttributeError for an aligned worm; the heights
\* differ by the clearances create_tuner_unit takes into account; and the
\* mode is forced after the correction was computed.
C30_CorrectionFromAssemblyOffset ==
    component = "config" =>
        /\ cfg_outcome # NoCall => cfg_outcome.kind = "BuildConfig"
        /\ unit # NoCall =>
              /\ unit.outcome = "dict"
              /\ ConfigZOffset = FSub(unit.wheel_z, unit.worm_z.z)
              /\ (ConfigZOffset = Zero) <=> (unit.worm_z.z = unit.wheel_z)

====
